---- MODULE Spec2Model ----
(***************************************************************************)
(* Model of NodeDebuggerServer (src/index.ts, stored as                    *)
(* src/unnamed/part_001; src/build/index.js is its compiled copy).         *)
(*                                                                         *)
(* The server is a single-threaded event loop.  Each tool call is an async *)
(* function: it runs atomically from one await to the next, and anything   *)
(* else (another tool call, a protocol event, a child's exit event) may    *)
(* run while it is suspended.  One action of the model is one such atomic  *)
(* run.  The debuggee processes and the inspector connections are the      *)
(* environment: their behaviour is nondeterministic within what the        *)
(* protocol allows.                                                         *)
(***************************************************************************)
EXTENDS Integers, Sequences, FiniteSets, TLC

\* ---------------------------------------------------------------- bounds
MaxProcs == 2
MaxConns == 2
MaxTasks == 2
MaxQueue == 2
MaxPortOffset == 2

\* ------------------------------------------------------ program constants
BasePort == 9229

Pids == 1..MaxProcs
Conns == 1..MaxConns
Tasks == 1..MaxTasks
Ports == BasePort..(BasePort + MaxPortOffset)

\* An optional field of a JavaScript object: absent (undefined) or one value.
Undefined == {}
Some(v) == {v}
IsDef(x) == x # {}
Val(x) == CHOOSE v \in x : TRUE

\* Inputs of the tool calls.
Files == {"file:///tmp/a.js"}
Lines == {5, 6}
Conditions == {"", "x > 1"}
Expressions == {"x"}
StepActions == {"next", "step", "continue", "out"}
\* The ports attach is asked for: the first launch's, and one nothing is on.
AttachPorts == {BasePort, BasePort + 2}
\* The call frames a Debugger.paused event may carry (innermost first).
\* (a frame: its function, its script and the zero-based line of its location).
Frame(functionName, lineNumber) ==
    [functionName |-> functionName, url |-> "file:///tmp/a.js", lineNumber |-> lineNumber]
MainStack == <<Frame("main", 0)>>
TestStack == <<Frame("test", 2), Frame("main", 0)>>
FrameStacks == {MainStack, TestStack}
ContextIds == {1}
BreakpointIds == {"1:0", "2:0"}

VARIABLES
    managedProcesses,   \* the registry: set of [pid, port]
    usedPorts,          \* the claimed ports
    nextPort,           \* the allocation cursor
    debugSession,       \* the session object
    task,               \* the tool calls suspended at an await
    request,            \* the tool call received in the last step, if any
    response,           \* the response a tool call returned in the last step, if any
    os,                 \* the child processes, as the operating system has them
    conn,               \* the inspector connections the server opened
    halted              \* the server process has exited

vars == <<managedProcesses, usedPorts, nextPort, debugSession, task, request, response, os, conn, halted>>

registryVars == <<managedProcesses, usedPorts, nextPort>>

\* ------------------------------------------------------------ the session
\* { connected: false, breakpoints: new Map(), isPaused: false }
InitialSession ==
    [connected |-> FALSE, port |-> Undefined, client |-> Undefined,
     callStack |-> Undefined, breakpoints |-> Some({}), isPaused |-> Some(FALSE),
     currentExecutionContext |-> Undefined]

\* { connected: false }
ExitResetSession ==
    [connected |-> FALSE, port |-> Undefined, client |-> Undefined,
     callStack |-> Undefined, breakpoints |-> Undefined, isPaused |-> Undefined,
     currentExecutionContext |-> Undefined]

\* The session object attachDebugger assigns once both domains are enabled.
AttachedSession(port, c) ==
    [connected |-> TRUE, port |-> Some(port), client |-> Some(c),
     callStack |-> Some(<<>>), breakpoints |-> Some({}), isPaused |-> Some(FALSE),
     currentExecutionContext |-> Undefined]

\* ------------------------------------------------------------------ tasks
\* The protocol request of an evaluate call: the method, and the call frame
\* or the execution-context id it carries.
NoTarget == [method |-> "", frame |-> Undefined, contextId |-> Undefined]

\* A tool call suspended at an await: the operation, the await it is at, its
\* arguments it still needs (num, str, cond) and its local variables (port,
\* conn, target).
IdleTask ==
    [op |-> "none", pc |-> "idle", num |-> 0, str |-> "", cond |-> "", port |-> 0,
     conn |-> 0, target |-> NoTarget]

\* Tool calls take the lowest free slot (the slots are interchangeable).
Free(t) == /\ task[t].pc = "idle"
           /\ \A u \in Tasks : u < t => task[u].pc # "idle"

Call(op, pc) == [IdleTask EXCEPT !.op = op, !.pc = pc]

\* A tool call as received: num is its numeric argument (pid, port, line),
\* str its text argument (file, action, expression), cond the breakpoint
\* condition, exists whether the script path of a launch exists.
Request(op, num, str, cond, exists) ==
    [op |-> op, num |-> num, str |-> str, cond |-> cond, exists |-> exists]

NoRequest == Request("none", 0, "", "", FALSE)

\* What a tool call returns: res is "ok" or the kind of error, num the
\* call's numeric argument (pid, port, line), val the value it reports, cond
\* the condition a set breakpoint is reported with.
Response(op, res, num, val) ==
    [op |-> op, res |-> res, num |-> num, val |-> val, cond |-> ""]

NoResponse == Response("none", "", 0, "")

\* ------------------------------------------------------- operating system
\* life: none (not spawned), alive, dead (the exit event is pending), reaped.
\* dbg: waiting (for a debugger, after --inspect-brk), running, paused.
NoProc ==
    [life |-> "none", port |-> 0, listening |-> FALSE, dbg |-> "waiting",
     signalled |-> FALSE]

\* A port is occupied when a live child has its inspector bound to it.
Listener(port) == {p \in Pids : os[p].life = "alive" /\ os[p].listening /\ os[p].port = port}

\* state: none (not opened), open, closed.  queue: what the debuggee has sent
\* and the server has not yet handled, in the order of the socket.  breaks:
\* the locations (url, zero-based line) of the breakpoints the debuggee
\* holds for the connection.
NoConn ==
    [state |-> "none", pid |-> 0, subscribed |-> FALSE, debuggerEnabled |-> FALSE,
     runtimeEnabled |-> FALSE, queue |-> <<>>, breaks |-> {}]

Init ==
    /\ managedProcesses = {}
    /\ usedPorts = {}
    /\ nextPort = BasePort
    /\ debugSession = InitialSession
    /\ task = [t \in Tasks |-> IdleTask]
    /\ request = NoRequest
    /\ response = NoResponse
    /\ os = [p \in Pids |-> NoProc]
    /\ conn = [c \in Conns |-> NoConn]
    /\ halted = FALSE

\* --------------------------------------------------------- port allocator
\* Ports some other program of the machine listens on.
ForeignPorts == {BasePort + 1}

\* A scan that starts over from the first port and looks at no claim.
ScanFromStart(p) == BasePort

\* A scan that takes its first candidate, claimed or not.
ScanFromNoSkip(p) == p

\* The synchronous part of findAvailablePort's loop condition: candidates in
\* usedPorts are skipped without a probe (the || short-circuits).
RECURSIVE ScanFrom(_)
ScanFrom(p) == IF p \in usedPorts THEN ScanFrom(p + 1) ELSE p

\* isPortAvailable: the connection attempt fails (available) unless something
\* listens on the port.
isPortAvailable(port) == Listener(port) = {} /\ port \notin ForeignPorts

\* A probe that takes any number for a port.
PortNeverOutOfRange(port) == FALSE

\* createConnection throws on a number that is no port (above 65535, the
\* range being cut here at the last of Ports): the promise of isPortAvailable
\* is rejected, and with it findAvailablePort and the launch that awaits it
\* outside its try.
PortOutOfRange(port) == port \notin Ports

\* --------------------------------------------------------------- registry
Entry(pid) == {m \in managedProcesses : m.pid = pid}

RegisteredPids == {m.pid : m \in managedProcesses}

FreshPids == {p \in Pids : os[p].life = "none"}

\* A launch that does not check the script path.
ScriptMissingUnchecked(exists) == FALSE

\* existsSync(scriptPath) fails: the launch stops before anything else.
ScriptMissing(exists) == ~exists

\* startNodeProcess up to its first await: the existence check, then
\* findAvailablePort up to the first probe.
StartCall(t, exists) ==
    /\ ~halted /\ Free(t)
    /\ request' = Request("start", 0, "", "", exists)
    /\ IF ScriptMissing(exists)
       THEN /\ response' = Response("start", "ScriptNotFound", 0, "")
            /\ UNCHANGED task
       ELSE /\ task' = [task EXCEPT ![t] =
                          [Call("start", "probe") EXCEPT !.port = ScanFrom(nextPort)]]
            /\ response' = NoResponse
    /\ UNCHANGED <<registryVars, debugSession, os, conn, halted>>

\* The registration of a spawned child (lines 304-316).
Register(pid, port) ==
    /\ usedPorts' = usedPorts \cup {port}
    /\ managedProcesses' =
          {m \in managedProcesses : m.pid # pid} \cup {[pid |-> pid, port |-> port]}

\* A launch that claims its port before it looks at the spawned child.
ProbeDoneClaimsFirst(t, spawnOk) ==
    /\ ~halted
    /\ request' = NoRequest
    /\ task[t].op = "start" /\ task[t].pc = "probe"
    /\ LET port == task[t].port IN
       IF PortOutOfRange(port)
       THEN /\ task' = [task EXCEPT ![t] = IdleTask]
            /\ response' = Response("start", "PortRangeError", 0, "")
            /\ UNCHANGED <<registryVars, os, halted>>
       ELSE IF ~isPortAvailable(port)
       THEN /\ task' = [task EXCEPT ![t].port = ScanFrom(port + 1)]
            /\ UNCHANGED <<registryVars, os, halted>> /\ response' = NoResponse
       ELSE /\ nextPort' = port + 1
            /\ task' = [task EXCEPT ![t] = IdleTask]
            /\ IF spawnOk
               THEN /\ FreshPids # {}
                    /\ LET pid == CHOOSE p \in FreshPids : \A q \in FreshPids : p <= q IN
                       /\ os' = [os EXCEPT ![pid] =
                                   [NoProc EXCEPT !.life = "alive", !.port = port]]
                       /\ Register(pid, port)
                       /\ response' = Response("start", "ok", pid, port)
                    /\ UNCHANGED halted
               ELSE /\ response' = Response("start", "SpawnError", 0, "")
                    /\ halted' = TRUE
                    /\ usedPorts' = usedPorts \cup {port}
                    /\ UNCHANGED <<managedProcesses, os>>
    /\ UNCHANGED <<debugSession, conn>>

\* A probe resolves.  Occupied: the loop goes on to the next candidate.
\* Available: the cursor moves past the port and the child is spawned.  A
\* spawn that fails gives a child without a pid: the launch throws and its
\* catch reports the error, and the child then emits its error event, for
\* which the launch has registered no listener (only "exit", line 318), so
\* the event is thrown as an uncaught exception and the server process ends.
ProbeDone(t, spawnOk) ==
    /\ ~halted
    /\ request' = NoRequest
    /\ task[t].op = "start" /\ task[t].pc = "probe"
    /\ LET port == task[t].port IN
       IF PortOutOfRange(port)
       THEN /\ task' = [task EXCEPT ![t] = IdleTask]
            /\ response' = Response("start", "PortRangeError", 0, "")
            /\ UNCHANGED <<registryVars, os, halted>>
       ELSE IF ~isPortAvailable(port)
       THEN /\ task' = [task EXCEPT ![t].port = ScanFrom(port + 1)]
            /\ UNCHANGED <<registryVars, os, halted>> /\ response' = NoResponse
       ELSE /\ nextPort' = port + 1
            /\ task' = [task EXCEPT ![t] = IdleTask]
            /\ IF spawnOk
               THEN /\ FreshPids # {}
                    /\ LET pid == CHOOSE p \in FreshPids : \A q \in FreshPids : p <= q IN
                       /\ os' = [os EXCEPT ![pid] =
                                   [NoProc EXCEPT !.life = "alive", !.port = port]]
                       /\ Register(pid, port)
                       /\ response' = Response("start", "ok", pid, port)
                    /\ UNCHANGED halted
               ELSE /\ response' = Response("start", "SpawnError", 0, "")
                    /\ halted' = TRUE
                    /\ UNCHANGED <<managedProcesses, usedPorts, os>>
    /\ UNCHANGED <<debugSession, conn>>

\* An exit observer that clears the claimed ports instead of deleting one.
ExitObserverClearsPorts(pid) ==
    LET found == Entry(pid) IN
    IF found = {}
    THEN UNCHANGED <<registryVars, debugSession>>
    ELSE LET process == CHOOSE m \in found : TRUE IN
         /\ usedPorts' = {}
         /\ managedProcesses' = managedProcesses \ found
         /\ debugSession' = IF debugSession.port = Some(process.port)
                            THEN ExitResetSession
                            ELSE debugSession
         /\ UNCHANGED nextPort

\* The exit observer of a child (lines 318-330).
ExitObserver(pid) ==
    LET found == Entry(pid) IN
    IF found = {}
    THEN UNCHANGED <<registryVars, debugSession>>
    ELSE LET process == CHOOSE m \in found : TRUE IN
         /\ usedPorts' = usedPorts \ {process.port}
         /\ managedProcesses' = managedProcesses \ found
         /\ debugSession' = IF debugSession.port = Some(process.port)
                            THEN ExitResetSession
                            ELSE debugSession
         /\ UNCHANGED nextPort

\* The exit event of a dead child is handled.
ChildExitEvent(pid) ==
    /\ ~halted
    /\ request' = NoRequest
    /\ os[pid].life = "dead"
    /\ os' = [os EXCEPT ![pid].life = "reaped"]
    /\ ExitObserver(pid)
    /\ UNCHANGED <<task, conn, halted>> /\ response' = NoResponse

\* A kill that signals the pid it is given without looking it up.
killProcessUnchecked(pid, signalOk) ==
    /\ ~halted
    /\ request' = Request("kill", pid, "", "", FALSE)
    /\ IF signalOk
       THEN /\ os' = [os EXCEPT ![pid].signalled = TRUE]
            /\ managedProcesses' = managedProcesses \ Entry(pid)
            /\ response' = Response("kill", "ok", pid, "")
            /\ UNCHANGED <<usedPorts, nextPort>>
       ELSE /\ response' = Response("kill", "KillError", pid, "")
            /\ UNCHANGED <<registryVars, os>>
    /\ UNCHANGED <<debugSession, task, conn, halted>>

\* A kill that signals the child and leaves its entry to the exit observer.
killProcessKeepsEntry(pid, signalOk) ==
    /\ ~halted
    /\ request' = Request("kill", pid, "", "", FALSE)
    /\ IF Entry(pid) = {}
       THEN /\ response' = Response("kill", "ProcessNotFound", pid, "")
            /\ UNCHANGED <<registryVars, os>>
       ELSE IF signalOk
       THEN /\ os' = [os EXCEPT ![pid].signalled = TRUE]
            /\ response' = Response("kill", "ok", pid, "")
            /\ UNCHANGED registryVars
       ELSE /\ response' = Response("kill", "KillError", pid, "")
            /\ UNCHANGED <<registryVars, os>>
    /\ UNCHANGED <<debugSession, task, conn, halted>>

\* killProcess: no await, one atomic run.  A signal delivery that throws is
\* caught and leaves the entry in place.
killProcess(pid, signalOk) ==
    /\ ~halted
    /\ request' = Request("kill", pid, "", "", FALSE)
    /\ IF Entry(pid) = {}
       THEN /\ response' = Response("kill", "ProcessNotFound", pid, "")
            /\ UNCHANGED <<registryVars, os>>
       ELSE IF signalOk
       THEN /\ os' = [os EXCEPT ![pid].signalled = TRUE]
            /\ managedProcesses' = managedProcesses \ Entry(pid)
            /\ response' = Response("kill", "ok", pid, "")
            /\ UNCHANGED <<usedPorts, nextPort>>
       ELSE /\ response' = Response("kill", "KillError", pid, "")
            /\ UNCHANGED <<registryVars, os>>
    /\ UNCHANGED <<debugSession, task, conn, halted>>

\* listProcesses: the pids of the registry.
listProcesses ==
    /\ ~halted
    /\ request' = Request("list", 0, "", "", FALSE)
    /\ response' = Response("list", "ok", 0, {m.pid : m \in managedProcesses})
    /\ UNCHANGED <<registryVars, debugSession, task, os, conn, halted>>

\* ------------------------------------------------------------ environment
\* The environment is followed for as long as the server runs.
\* A spawned child binds its inspector to its port, if nothing holds it.
ChildBind(pid) ==
    /\ ~halted
    /\ os[pid].life = "alive" /\ ~os[pid].listening
    /\ request' = NoRequest
    /\ isPortAvailable(os[pid].port)
    /\ os' = [os EXCEPT ![pid].listening = TRUE]
    /\ UNCHANGED <<registryVars, debugSession, task, conn, halted>> /\ response' = NoResponse

\* A child dies, on its own or from a signal; the remote end of every
\* connection to it goes away, and the server sees that at once.
ChildDies(pid) ==
    /\ ~halted
    /\ os[pid].life = "alive"
    /\ request' = NoRequest
    /\ os' = [os EXCEPT ![pid].life = "dead", ![pid].listening = FALSE]
    /\ conn' = [c \in Conns |->
                  IF conn[c].state = "open" /\ conn[c].pid = pid
                  THEN [conn[c] EXCEPT !.state = "closed", !.queue = <<>>, !.breaks = {}]
                  ELSE conn[c]]
    /\ UNCHANGED <<registryVars, debugSession, task, halted>> /\ response' = NoResponse

\* A child dies while the server has not yet read what the child had sent:
\* the exit event and the data of the socket reach the event loop in either
\* order, so the connections stay as they are until ConnectionLost.
ChildDiesUnread(pid) ==
    /\ ~halted
    /\ os[pid].life = "alive"
    /\ \E c \in Conns : conn[c].state = "open" /\ conn[c].pid = pid /\ conn[c].queue # <<>>
    /\ request' = NoRequest
    /\ os' = [os EXCEPT ![pid].life = "dead", ![pid].listening = FALSE]
    /\ UNCHANGED <<registryVars, debugSession, task, conn, halted>> /\ response' = NoResponse

\* ----------------------------------------------------- protocol channel
\* What travels from the debuggee to the server on a connection: the events
\* paused (data: the call frames), resumed, context (data: the id of a
\* created execution context), and resp, the response to task's request
\* (ok, or an error; data: what the response carries).
Msg(type, t, ok, data) == [type |-> type, task |-> t, ok |-> ok, data |-> data]

\* The messages of the errors a request ends with: the debuggee rejects it,
\* or the connection is closed.
Rejected == "rejected"
Closed == "closed"

\* The connections of a debuggee that receive its Debugger events.
Watchers(cn, pid) ==
    {c \in Conns : cn[c].state = "open" /\ cn[c].pid = pid /\ cn[c].debuggerEnabled}

Room(cn, targets) == \A c \in targets : Len(cn[c].queue) < MaxQueue

Push(cn, targets, msg) ==
    [c \in Conns |-> IF c \in targets THEN [cn[c] EXCEPT !.queue = Append(@, msg)] ELSE cn[c]]

\* The response to task t's request is the next thing on connection c; a
\* request on a connection that is not open is rejected.
Answered(t) ==
    LET c == task[t].conn IN
    \/ conn[c].state # "open"
    \/ /\ conn[c].queue # <<>>
       /\ Head(conn[c].queue).type = "resp"
       /\ Head(conn[c].queue).task = t

Reply(t) ==
    LET c == task[t].conn IN
    IF conn[c].state = "open" THEN Head(conn[c].queue) ELSE Msg("resp", t, FALSE, Closed)

\* The connections once task t has taken its response.
Taken(t) ==
    LET c == task[t].conn IN
    IF conn[c].state = "open" THEN [conn EXCEPT ![c].queue = Tail(@)] ELSE conn

\* Task t's request on connection c is answered with msg (the debuggee has
\* handled it by the time its answer is queued); a debuggee that has died
\* answers nothing.
Ask(cn, c, msg) ==
    IF cn[c].state = "open" /\ os[cn[c].pid].life = "alive" THEN Push(cn, {c}, msg) ELSE cn

\* The server sees the end of a connection whose debuggee has died: what was
\* not yet handled is gone, and the requests outstanding on it are rejected.
\* No handler of the server is registered for it.
ConnectionLost(c) ==
    /\ ~halted
    /\ conn[c].state = "open" /\ os[conn[c].pid].life # "alive"
    /\ request' = NoRequest
    /\ conn' = [conn EXCEPT ![c].state = "closed", ![c].queue = <<>>, ![c].breaks = {}]
    /\ UNCHANGED <<registryVars, debugSession, task, os, halted>> /\ response' = NoResponse

\* ------------------------------------------------------- event handlers
\* A paused handler that also starts a new breakpoint table, as the session
\* initialisation of attach does.
OnPausedNewTable(s, callFrames) ==
    [s EXCEPT !.callStack = Some(callFrames), !.isPaused = Some(TRUE), !.breakpoints = Some({})]

\* Debugger.paused (lines 425-428), on whatever this.debugSession is then.
OnPaused(s, callFrames) == [s EXCEPT !.callStack = Some(callFrames), !.isPaused = Some(TRUE)]

\* A resumed handler that does nothing.
OnResumedIgnored(s) == s

\* A resumed handler that leaves the call stack of the last pause in place.
OnResumedKeepsStack(s) == [s EXCEPT !.isPaused = Some(FALSE)]

\* Debugger.resumed (lines 430-433).
OnResumed(s) == [s EXCEPT !.isPaused = Some(FALSE), !.callStack = Some(<<>>)]

\* Runtime.executionContextCreated (lines 435-437).
OnContextCreated(s, id) == [s EXCEPT !.currentExecutionContext = Some(id)]

\* The next event on a connection is handled.
DeliverEvent(c) ==
    /\ ~halted
    /\ request' = NoRequest
    /\ conn[c].state = "open" /\ conn[c].subscribed
    /\ conn[c].queue # <<>>
    /\ LET ev == Head(conn[c].queue) IN
       /\ ev.type # "resp"
       /\ debugSession' =
            CASE ev.type = "paused" -> OnPaused(debugSession, ev.data)
              [] ev.type = "resumed" -> OnResumed(debugSession)
              [] ev.type = "context" -> OnContextCreated(debugSession, ev.data)
    /\ conn' = [conn EXCEPT ![c].queue = Tail(@)]
    /\ UNCHANGED <<registryVars, task, os, halted>> /\ response' = NoResponse

\* A running debuggee with a debugger enabled stops (its first line after
\* --inspect-brk, a requested pause, a breakpoint, the end of a step).
DebuggeePauses(pid, callFrames) ==
    /\ ~halted
    /\ os[pid].life = "alive" /\ os[pid].dbg = "running"
    /\ request' = NoRequest
    /\ Watchers(conn, pid) # {}
    /\ Room(conn, Watchers(conn, pid))
    /\ os' = [os EXCEPT ![pid].dbg = "paused"]
    /\ conn' = Push(conn, Watchers(conn, pid), Msg("paused", 0, TRUE, callFrames))
    /\ UNCHANGED <<registryVars, debugSession, task, halted>> /\ response' = NoResponse

\* The call frames of a debuggee stopped at a breakpoint.
HitStack(location) ==
    <<[functionName |-> "test", url |-> location[1], lineNumber |-> location[2]],
      Frame("main", 0)>>

\* A running debuggee reaches a breakpoint it holds for some connection.
DebuggeeHits(pid, location) ==
    /\ \E c \in Conns : conn[c].state = "open" /\ conn[c].pid = pid
                        /\ location \in conn[c].breaks
    /\ DebuggeePauses(pid, HitStack(location))

\* ----------------------------------------------------------------- attach
Fail(t, op, res) ==
    /\ task' = [task EXCEPT ![t] = IdleTask]
    /\ response' = Response(op, res, task[t].num, "")

FreshConns == {c \in Conns : conn[c].state = "none"}

\* An attach that opens the new connection without closing the old one.
AttachCallNoClose(t, port) ==
    /\ ~halted /\ Free(t)
    /\ request' = Request("attach", port, "", "", FALSE)
    /\ task' = [task EXCEPT ![t] = [Call("attach", "connect") EXCEPT !.num = port]]
    /\ UNCHANGED <<registryVars, debugSession, os, conn, halted>> /\ response' = NoResponse

\* attachDebugger up to its first await: the close of the client the session
\* holds, or else the opening of the new connection.
AttachCall(t, port) ==
    /\ ~halted /\ Free(t)
    /\ request' = Request("attach", port, "", "", FALSE)
    /\ task' = [task EXCEPT ![t] =
          IF IsDef(debugSession.client)
          THEN [Call("attach", "close") EXCEPT !.num = port, !.conn = Val(debugSession.client)]
          ELSE [Call("attach", "connect") EXCEPT !.num = port]]
    /\ UNCHANGED <<registryVars, debugSession, os, conn, halted>> /\ response' = NoResponse

\* await client.close() returns, or throws into the outer catch.
AttachClosed(t, closeOk) ==
    /\ ~halted
    /\ request' = NoRequest
    /\ task[t].op = "attach" /\ task[t].pc = "close"
    /\ IF closeOk
       THEN /\ conn' = [conn EXCEPT ![task[t].conn].state = "closed",
                                    ![task[t].conn].queue = <<>>,
                                    ![task[t].conn].breaks = {}]
            /\ task' = [task EXCEPT ![t].pc = "connect", ![t].conn = 0]
            /\ response' = NoResponse
       ELSE /\ Fail(t, "attach", "AttachError")
            /\ UNCHANGED conn
    /\ UNCHANGED <<registryVars, debugSession, os, halted>>

\* An attach that enables the debugger domain with no subscription installed.
AttachConnectedUnsubscribed(t, rePaused) ==
    /\ ~halted
    /\ request' = NoRequest
    /\ task[t].op = "attach" /\ task[t].pc = "connect"
    /\ IF Listener(task[t].num) = {}
       THEN /\ Fail(t, "attach", "AttachError")
            /\ UNCHANGED conn
       ELSE /\ FreshConns # {}
            /\ LET c == CHOOSE x \in FreshConns : \A y \in FreshConns : x <= y
                   pid == CHOOSE p \in Listener(task[t].num) : TRUE
                   opened == [conn EXCEPT ![c] = [NoConn EXCEPT !.state = "open", !.pid = pid,
                                                                !.debuggerEnabled = TRUE]]
               IN /\ conn' = Ask(opened, c, Msg("resp", t, TRUE, ""))
                  /\ task' = [task EXCEPT ![t].pc = "enableDebugger", ![t].conn = c]
            /\ response' = NoResponse
    /\ UNCHANGED <<registryVars, debugSession, os, halted>>

\* await CDP({port}) returns a client, or throws when nothing listens.  With
\* a client: the three subscriptions, then Debugger.enable is sent.
AttachConnected(t, rePaused) ==
    /\ ~halted
    /\ request' = NoRequest
    /\ task[t].op = "attach" /\ task[t].pc = "connect"
    /\ IF Listener(task[t].num) = {}
       THEN /\ Fail(t, "attach", "AttachError")
            /\ UNCHANGED conn
       ELSE /\ FreshConns # {}
            /\ LET c == CHOOSE x \in FreshConns : \A y \in FreshConns : x <= y
                   pid == CHOOSE p \in Listener(task[t].num) : TRUE
                   opened == [conn EXCEPT ![c] = [NoConn EXCEPT !.state = "open", !.pid = pid,
                                                                !.subscribed = TRUE,
                                                                !.debuggerEnabled = TRUE]]
                   \* A debuggee that is paused already may report it on enable.
                   told == IF rePaused /\ os[pid].dbg = "paused"
                           THEN Push(opened, {c}, Msg("paused", 0, TRUE, MainStack))
                           ELSE opened
               IN /\ conn' = Ask(told, c, Msg("resp", t, TRUE, ""))
                  /\ task' = [task EXCEPT ![t].pc = "enableDebugger", ![t].conn = c]
            /\ response' = NoResponse
    /\ UNCHANGED <<registryVars, debugSession, os, halted>>

\* await Debugger.enable() returns; Runtime.enable is sent, and answered
\* after the report of the existing execution context.
AttachDebuggerEnabled(t, id) ==
    /\ ~halted
    /\ request' = NoRequest
    /\ task[t].op = "attach" /\ task[t].pc = "enableDebugger"
    /\ Answered(t)
    /\ IF Reply(t).ok
       THEN /\ conn' = Ask(Ask([Taken(t) EXCEPT ![task[t].conn].runtimeEnabled = TRUE],
                               task[t].conn, Msg("context", 0, TRUE, id)),
                           task[t].conn, Msg("resp", t, TRUE, ""))
            /\ task' = [task EXCEPT ![t].pc = "enableRuntime"]
            /\ response' = NoResponse
       ELSE /\ Fail(t, "attach", "AttachError")
            /\ conn' = Taken(t)
    /\ UNCHANGED <<registryVars, debugSession, os, halted>>

\* await Runtime.enable() returns; the session object is replaced (lines
\* 444-453) and Debugger.pause is sent.
AttachRuntimeEnabled(t, pauseOk) ==
    /\ ~halted
    /\ request' = NoRequest
    /\ task[t].op = "attach" /\ task[t].pc = "enableRuntime"
    /\ Answered(t)
    /\ IF Reply(t).ok
       THEN /\ debugSession' = AttachedSession(task[t].num, task[t].conn)
            /\ conn' = Ask(Taken(t), task[t].conn, Msg("resp", t, pauseOk, ""))
            /\ task' = [task EXCEPT ![t].pc = "pause"]
            /\ response' = NoResponse
       ELSE /\ Fail(t, "attach", "AttachError")
            /\ conn' = Taken(t)
            /\ UNCHANGED debugSession
    /\ UNCHANGED <<registryVars, os, halted>>

\* Runtime.runIfWaitingForDebugger is sent: a debuggee waiting for a debugger
\* starts to run.
Release(pid) ==
    IF pid \in Pids /\ os[pid].life = "alive" /\ os[pid].dbg = "waiting"
    THEN [os EXCEPT ![pid].dbg = "running"]
    ELSE os

\* An attach in which a failure of Debugger.pause reaches the outer catch.
AttachPausedThrows(t, releaseOk) ==
    /\ ~halted
    /\ request' = NoRequest
    /\ task[t].op = "attach" /\ task[t].pc = "pause"
    /\ Answered(t)
    /\ conn' = Taken(t)
    /\ IF Reply(t).ok
       THEN /\ task' = [task EXCEPT ![t].pc = "delay1"]
            /\ response' = NoResponse
       ELSE Fail(t, "attach", "AttachError")
    /\ UNCHANGED <<registryVars, debugSession, os, halted>>

\* await Debugger.pause() returns (then the 100 ms timer is set) or throws
\* (then the catch is empty and runIfWaitingForDebugger is sent at once).
AttachPaused(t, releaseOk) ==
    /\ ~halted
    /\ request' = NoRequest
    /\ task[t].op = "attach" /\ task[t].pc = "pause"
    /\ Answered(t)
    /\ IF Reply(t).ok
       THEN /\ conn' = Taken(t)
            /\ task' = [task EXCEPT ![t].pc = "delay1"]
            /\ UNCHANGED os
       ELSE /\ conn' = Ask(Taken(t), task[t].conn, Msg("resp", t, releaseOk, ""))
            /\ os' = IF conn[task[t].conn].state = "open"
                     THEN Release(conn[task[t].conn].pid) ELSE os
            /\ task' = [task EXCEPT ![t].pc = "release"]
    /\ UNCHANGED <<registryVars, debugSession, halted>> /\ response' = NoResponse

\* The 100 ms timer fires; runIfWaitingForDebugger is sent.
AttachDelay1(t, releaseOk) ==
    /\ ~halted
    /\ request' = NoRequest
    /\ task[t].op = "attach" /\ task[t].pc = "delay1"
    /\ conn' = Ask(conn, task[t].conn, Msg("resp", t, releaseOk, ""))
    /\ os' = IF conn[task[t].conn].state = "open"
             THEN Release(conn[task[t].conn].pid) ELSE os
    /\ task' = [task EXCEPT ![t].pc = "release"]
    /\ UNCHANGED <<registryVars, debugSession, halted>> /\ response' = NoResponse

\* await Runtime.runIfWaitingForDebugger() returns or throws (the catch is
\* empty); the 200 ms timer is set.
AttachReleased(t) ==
    /\ ~halted
    /\ request' = NoRequest
    /\ task[t].op = "attach" /\ task[t].pc = "release"
    /\ Answered(t)
    /\ conn' = Taken(t)
    /\ task' = [task EXCEPT ![t].pc = "delay2"]
    /\ UNCHANGED <<registryVars, debugSession, os, halted>> /\ response' = NoResponse

\* The 200 ms timer fires; attachDebugger returns success.
AttachReturn(t) ==
    /\ ~halted
    /\ request' = NoRequest
    /\ task[t].op = "attach" /\ task[t].pc = "delay2"
    /\ task' = [task EXCEPT ![t] = IdleTask]
    /\ response' = Response("attach", "ok", task[t].num, "")
    /\ UNCHANGED <<registryVars, debugSession, os, conn, halted>>

\* ------------------------------------------------------ the session view
\* The session as the debug://session resource shows it (lines 91-106).
SessionView(s) ==
    [connected |-> s.connected,
     port |-> s.port,
     isPaused |-> s.isPaused,
     currentExecutionContext |-> s.currentExecutionContext,
     breakpoints |-> IF IsDef(s.breakpoints) THEN Val(s.breakpoints) ELSE {},
     callStack |-> IF IsDef(s.callStack)
                   THEN Some([i \in DOMAIN Val(s.callStack) |->
                                [functionName |-> Val(s.callStack)[i].functionName,
                                 url |-> Val(s.callStack)[i].url,
                                 lineNumber |-> Val(s.callStack)[i].lineNumber + 1]])
                   ELSE Undefined]

\* The ReadResource handler for debug://session: no await, one atomic run.
readSession ==
    /\ ~halted
    /\ request' = Request("session", 0, "", "", FALSE)
    /\ response' = Response("session", "ok", 0, SessionView(debugSession))
    /\ UNCHANGED <<registryVars, debugSession, task, os, conn, halted>>

\* ------------------------------------------------- the debug operations
\* A guard that lets every call through.
NoActiveSessionUnchecked(s) == FALSE

\* The guard of setBreakpoint, stepDebug, pauseExecution, evaluateExpression.
NoActiveSession(s) == ~s.connected \/ ~IsDef(s.client)

\* A debug operation up to its first await.  Past the guard, the client is
\* taken from the session (destructuring an undefined client throws, into the
\* catch) and the request is sent on it.
DebugCall(t, call, errorKind) ==
    IF NoActiveSession(debugSession)
    THEN /\ response' = Response(call.op, "NoActiveSession", call.num, "")
         /\ UNCHANGED <<task, conn, os>>
    ELSE IF ~IsDef(debugSession.client)
    THEN /\ response' = Response(call.op, errorKind, call.num, "")
         /\ UNCHANGED <<task, conn, os>>
    ELSE /\ task' = [task EXCEPT ![t] = [call EXCEPT !.conn = Val(debugSession.client)]]
         /\ response' = NoResponse

\* `${args.file}:${args.line}`
breakpointKey(file, line) == <<file, line>>

\* A table that keeps the earlier mapping of a key next to the new one.
MapAdd(m, k, v) == m \cup {<<k, v>>}

\* Map.set
MapSet(m, k, v) == {e \in m : e[1] # k} \cup {<<k, v>>}

\* A request that carries the line as the caller counts it.
SetBreakpointByUrlOneBased(file, line, cond) ==
    [lineNumber |-> line, url |-> file, condition |-> cond]

\* The parameters of Debugger.setBreakpointByUrl (lines 516-520).
SetBreakpointByUrl(file, line, cond) ==
    [lineNumber |-> line - 1, url |-> file, condition |-> cond]

\* The debuggee takes the breakpoint of a request it accepts.
Held(cn, c, params, ok) ==
    IF ok /\ cn[c].state = "open" /\ os[cn[c].pid].life = "alive"
    THEN [cn EXCEPT ![c].breaks = @ \cup {<<params.url, params.lineNumber>>}]
    ELSE cn

\* setBreakpoint sends Debugger.setBreakpointByUrl; the debuggee answers with
\* a breakpoint id or with an error.
setBreakpointCall(t, file, line, cond, ok, id) ==
    /\ ~halted /\ Free(t)
    /\ request' = Request("setBreakpoint", line, file, cond, FALSE)
    /\ DebugCall(t, [Call("setBreakpoint", "request") EXCEPT !.str = file, !.num = line,
                                                              !.cond = cond],
                 "BreakpointError")
    /\ IF task'[t].pc = "request"
       THEN conn' = Ask(Held(conn, task'[t].conn, SetBreakpointByUrl(file, line, cond), ok),
                        task'[t].conn, Msg("resp", t, ok, IF ok THEN id ELSE Rejected))
            /\ UNCHANGED os
       ELSE TRUE
    /\ UNCHANGED <<registryVars, debugSession, halted>>

\* A setBreakpoint that stores the mapping under a key holding the condition
\* as well.
setBreakpointDoneKeyedByCondition(t) ==
    /\ ~halted
    /\ request' = NoRequest
    /\ task[t].op = "setBreakpoint" /\ task[t].pc = "request"
    /\ Answered(t)
    /\ conn' = Taken(t)
    /\ task' = [task EXCEPT ![t] = IdleTask]
    /\ IF Reply(t).ok /\ IsDef(debugSession.breakpoints)
       THEN /\ debugSession' = [debugSession EXCEPT !.breakpoints =
                    Some(MapSet(Val(@),
                                <<task[t].str, task[t].num, task[t].cond>>, Reply(t).data))]
            /\ response' = [Response("setBreakpoint", "ok", task[t].num, Reply(t).data)
                                EXCEPT !.cond = task[t].cond]
       ELSE /\ response' = Response("setBreakpoint", "BreakpointError", task[t].num,
                                     IF Reply(t).ok THEN "TypeError" ELSE Reply(t).data)
            /\ UNCHANGED debugSession
    /\ UNCHANGED <<registryVars, os, halted>>

\* The answer arrives: the mapping is stored in whatever this.debugSession
\* is then (a session without a table throws a TypeError, into the catch).
setBreakpointDone(t) ==
    /\ ~halted
    /\ request' = NoRequest
    /\ task[t].op = "setBreakpoint" /\ task[t].pc = "request"
    /\ Answered(t)
    /\ conn' = Taken(t)
    /\ task' = [task EXCEPT ![t] = IdleTask]
    /\ IF Reply(t).ok /\ IsDef(debugSession.breakpoints)
       THEN /\ debugSession' = [debugSession EXCEPT !.breakpoints =
                    Some(MapSet(Val(@), breakpointKey(task[t].str, task[t].num), Reply(t).data))]
            /\ response' = [Response("setBreakpoint", "ok", task[t].num, Reply(t).data)
                                EXCEPT !.cond = task[t].cond]
       ELSE /\ response' = Response("setBreakpoint", "BreakpointError", task[t].num,
                                     IF Reply(t).ok THEN "TypeError" ELSE Reply(t).data)
            /\ UNCHANGED debugSession
    /\ UNCHANGED <<registryVars, os, halted>>

\* Debugger.resume, stepOver, stepInto, stepOut on connection c: a paused
\* debuggee runs on and reports resumed; any other gets an error.
Advance(c) ==
    LET pid == conn[c].pid
        paused == conn[c].state = "open" /\ os[pid].life = "alive" /\ os[pid].dbg = "paused"
    IN [ok |-> paused,
        os |-> IF paused THEN [os EXCEPT ![pid].dbg = "running"] ELSE os,
        told |-> IF paused THEN Watchers(conn, pid) ELSE {}]

stepDebugCall(t, action) ==
    /\ ~halted /\ Free(t)
    /\ request' = Request("step", 0, action, "", FALSE)
    /\ DebugCall(t, Call("step", "request"), "StepError")
    /\ IF task'[t].pc = "request"
       THEN LET c == task'[t].conn
                a == Advance(c) IN
            /\ Room(conn, a.told)
            /\ conn' = Push(Ask(conn, c, Msg("resp", t, a.ok, IF a.ok THEN "" ELSE Rejected)),
                            a.told,
                            Msg("resumed", 0, TRUE, ""))
            /\ os' = a.os
       ELSE TRUE
    /\ UNCHANGED <<registryVars, debugSession, halted>>

\* A step that marks the session as running once its request is accepted.
stepDebugDoneResumes(t) ==
    /\ ~halted
    /\ request' = NoRequest
    /\ task[t].op = "step" /\ task[t].pc = "request"
    /\ Answered(t)
    /\ conn' = Taken(t)
    /\ task' = [task EXCEPT ![t] = IdleTask]
    /\ response' = Response("step", IF Reply(t).ok THEN "ok" ELSE "StepError", 0,
                            Reply(t).data)
    /\ debugSession' = IF Reply(t).ok THEN OnResumed(debugSession) ELSE debugSession
    /\ UNCHANGED <<registryVars, os, halted>>

stepDebugDone(t) ==
    /\ ~halted
    /\ request' = NoRequest
    /\ task[t].op = "step" /\ task[t].pc = "request"
    /\ Answered(t)
    /\ conn' = Taken(t)
    /\ task' = [task EXCEPT ![t] = IdleTask]
    /\ response' = Response("step", IF Reply(t).ok THEN "ok" ELSE "StepError", 0,
                            Reply(t).data)
    /\ UNCHANGED <<registryVars, debugSession, os, halted>>

pauseExecutionCall(t, ok) ==
    /\ ~halted /\ Free(t)
    /\ request' = Request("pause", 0, "", "", FALSE)
    /\ DebugCall(t, Call("pause", "request"), "PauseError")
    /\ IF task'[t].pc = "request"
       THEN conn' = Ask(conn, task'[t].conn, Msg("resp", t, ok, IF ok THEN "" ELSE Rejected))
            /\ UNCHANGED os
       ELSE TRUE
    /\ UNCHANGED <<registryVars, debugSession, halted>>

\* A pause that drops the session when its request is rejected.
pauseExecutionDoneDetaches(t) ==
    /\ ~halted
    /\ request' = NoRequest
    /\ task[t].op = "pause" /\ task[t].pc = "request"
    /\ Answered(t)
    /\ conn' = Taken(t)
    /\ task' = [task EXCEPT ![t] = IdleTask]
    /\ response' = Response("pause", IF Reply(t).ok THEN "ok" ELSE "PauseError", 0,
                            Reply(t).data)
    /\ debugSession' = IF Reply(t).ok THEN debugSession ELSE InitialSession
    /\ UNCHANGED <<registryVars, os, halted>>

pauseExecutionDone(t) ==
    /\ ~halted
    /\ request' = NoRequest
    /\ task[t].op = "pause" /\ task[t].pc = "request"
    /\ Answered(t)
    /\ conn' = Taken(t)
    /\ task' = [task EXCEPT ![t] = IdleTask]
    /\ response' = Response("pause", IF Reply(t).ok THEN "ok" ELSE "PauseError", 0,
                            Reply(t).data)
    /\ UNCHANGED <<registryVars, debugSession, os, halted>>

\* An evaluate that never looks at the call stack.
EvaluateTargetContext(s) == "context"

\* Where evaluateExpression sends the expression (line 669).
EvaluateTarget(s) ==
    IF s.isPaused = Some(TRUE) /\ IsDef(s.callStack) /\ Len(Val(s.callStack)) > 0
    THEN "callFrame"
    ELSE "context"

\* The request evaluateExpression sends (lines 670-683): on the innermost
\* frame of the call stack, or in the session's current execution context.
EvaluateRequest(s) ==
    IF EvaluateTarget(s) = "callFrame"
    THEN [method |-> "Debugger.evaluateOnCallFrame", frame |-> Some(Head(Val(s.callStack))),
          contextId |-> Undefined]
    ELSE [method |-> "Runtime.evaluate", frame |-> Undefined,
          contextId |-> s.currentExecutionContext]

\* The debuggee's answer: a value, exception details, or an error.
EvaluateOutcomes == {"value", "exception", Rejected}

evaluateExpressionCall(t, expression, outcome) ==
    /\ ~halted /\ Free(t)
    /\ request' = Request("evaluate", 0, expression, "", FALSE)
    /\ DebugCall(t, [Call("evaluate", "request") EXCEPT !.str = expression,
                                                         !.target = EvaluateRequest(debugSession)],
                 "EvaluateError")
    /\ IF task'[t].pc = "request"
       THEN conn' = Ask(conn, task'[t].conn, Msg("resp", t, outcome # Rejected, outcome))
            /\ UNCHANGED os
       ELSE TRUE
    /\ UNCHANGED <<registryVars, debugSession, halted>>

\* An evaluate that reports the exception of an answer as the error of a
\* rejected request.
EvaluateResultNoDetails(reply) ==
    IF ~reply.ok \/ reply.data = "exception"
    THEN [res |-> "EvaluateError", val |-> reply.data]
    ELSE [res |-> "ok", val |-> reply.data]

\* What evaluateExpression returns for an answer (lines 686-720): the error
\* of a rejected request, the exception the answer reports, or the value.
EvaluateResult(reply) ==
    IF ~reply.ok THEN [res |-> "EvaluateError", val |-> reply.data]
    ELSE IF reply.data = "exception" THEN [res |-> "Exception", val |-> reply.data]
    ELSE [res |-> "ok", val |-> reply.data]

evaluateExpressionDone(t) ==
    /\ ~halted
    /\ request' = NoRequest
    /\ task[t].op = "evaluate" /\ task[t].pc = "request"
    /\ Answered(t)
    /\ conn' = Taken(t)
    /\ task' = [task EXCEPT ![t] = IdleTask]
    /\ response' = Response("evaluate", EvaluateResult(Reply(t)).res, 0,
                            EvaluateResult(Reply(t)).val)
    /\ UNCHANGED <<registryVars, debugSession, os, halted>>

\* --------------------------------------------------------------- shutdown
\* A cleanup whose loop ends at the first kill that throws.
cleanupStopsAtThrow(thrown) ==
    /\ ~halted
    /\ request' = NoRequest
    /\ conn' = [c \in Conns |-> IF conn[c].state = "open"
                                THEN [conn[c] EXCEPT !.state = "closed", !.queue = <<>>, !.breaks = {}]
                                ELSE conn[c]]
    /\ os' = [p \in Pids |-> IF Entry(p) # {} /\ \A q \in thrown \cap RegisteredPids : p < q
                             THEN [os[p] EXCEPT !.signalled = TRUE] ELSE os[p]]
    /\ managedProcesses' = {}
    /\ usedPorts' = {}
    /\ debugSession' = InitialSession
    /\ task' = [t \in Tasks |-> IdleTask]
    /\ halted' = TRUE
    /\ response' = Response("cleanup", "exit", 0, thrown \cap RegisteredPids)
    /\ UNCHANGED nextPort

\* cleanup (lines 745-770), then process.exit(0): the end of the server
\* process ends its suspended tool calls and closes its connections.  thrown:
\* the children whose kill throws; the throws of registered children are
\* logged (line 760), which the response records.
cleanup(thrown) ==
    /\ ~halted
    /\ request' = NoRequest
    /\ conn' = [c \in Conns |-> IF conn[c].state = "open"
                                THEN [conn[c] EXCEPT !.state = "closed", !.queue = <<>>, !.breaks = {}]
                                ELSE conn[c]]
    /\ os' = [p \in Pids |-> IF Entry(p) # {} /\ p \notin thrown
                             THEN [os[p] EXCEPT !.signalled = TRUE] ELSE os[p]]
    /\ managedProcesses' = {}
    /\ usedPorts' = {}
    /\ debugSession' = InitialSession
    /\ task' = [t \in Tasks |-> IdleTask]
    /\ halted' = TRUE
    /\ response' = Response("cleanup", "exit", 0, thrown \cap RegisteredPids)
    /\ UNCHANGED nextPort

NextRegistry ==
    \/ \E t \in Tasks, exists \in BOOLEAN : StartCall(t, exists)
    \/ \E t \in Tasks, spawnOk \in BOOLEAN : ProbeDone(t, spawnOk)
    \/ \E pid \in Pids, signalOk \in BOOLEAN : killProcess(pid, signalOk)
    \/ listProcesses
    \/ \E pid \in Pids : ChildExitEvent(pid)
    \/ \E pid \in Pids : ChildBind(pid)
    \/ \E pid \in Pids : ChildDies(pid)

AttachSteps ==
    \/ \E t \in Tasks, port \in AttachPorts : AttachCall(t, port)
    \/ \E t \in Tasks, closeOk \in BOOLEAN : AttachClosed(t, closeOk)
    \/ \E t \in Tasks, rePaused \in BOOLEAN : AttachConnected(t, rePaused)
    \/ \E t \in Tasks, id \in ContextIds : AttachDebuggerEnabled(t, id)
    \/ \E t \in Tasks, pauseOk \in BOOLEAN : AttachRuntimeEnabled(t, pauseOk)
    \/ \E t \in Tasks, releaseOk \in BOOLEAN : AttachPaused(t, releaseOk)
    \/ \E t \in Tasks, releaseOk \in BOOLEAN : AttachDelay1(t, releaseOk)
    \/ \E t \in Tasks : AttachReleased(t)
    \/ \E t \in Tasks : AttachReturn(t)

EventSteps ==
    \/ \E c \in Conns : DeliverEvent(c)
    \/ \E pid \in Pids, callFrames \in FrameStacks : DebuggeePauses(pid, callFrames)

ControlSteps ==
    \/ \E t \in Tasks, action \in StepActions : stepDebugCall(t, action)
    \/ \E t \in Tasks : stepDebugDone(t)
    \/ \E t \in Tasks, ok \in BOOLEAN : pauseExecutionCall(t, ok)
    \/ \E t \in Tasks : pauseExecutionDone(t)

InspectSteps ==
    \/ \E t \in Tasks, file \in Files, line \in Lines, cond \in Conditions,
          ok \in BOOLEAN, id \in BreakpointIds : setBreakpointCall(t, file, line, cond, ok, id)
    \/ \E t \in Tasks : setBreakpointDone(t)
    \/ \E t \in Tasks, expression \in Expressions, outcome \in EvaluateOutcomes :
          evaluateExpressionCall(t, expression, outcome)
    \/ \E t \in Tasks : evaluateExpressionDone(t)

ExitSteps ==
    \/ \E pid \in Pids, signalOk \in BOOLEAN : killProcess(pid, signalOk)
    \/ \E pid \in Pids : ChildExitEvent(pid)
    \/ \E pid \in Pids : ChildDies(pid)

\* The death of a child that races with the handling of what it had sent.
UnreadSteps ==
    \/ \E pid \in Pids : ChildDiesUnread(pid)
    \/ \E c \in Conns : ConnectionLost(c)

Shutdown == \E thrown \in SUBSET Pids : cleanup(thrown)

\* The locations a breakpoint can be held at.
Locations == {<<file, line - 1>> : file \in Files, line \in Lines}

\* The stops at breakpoints, and the reading of the session.
ViewSteps ==
    \/ \E pid \in Pids, location \in Locations : DebuggeeHits(pid, location)
    \/ readSession

\* The whole server.
Next ==
    \/ NextRegistry
    \/ AttachSteps
    \/ EventSteps
    \/ ControlSteps
    \/ InspectSteps
    \/ ViewSteps
    \/ UnreadSteps
    \/ Shutdown

Spec == Init /\ [][Next]_vars

\* The registry alone: launches, kills, exits and the shutdown.
NextRegistryOnly ==
    \/ NextRegistry
    \/ Shutdown

SpecRegistry == Init /\ [][NextRegistryOnly]_vars

\* The state once start_node_process has returned for the first launch and
\* the child has bound its inspector.
InitLaunched ==
    /\ managedProcesses = {[pid |-> 1, port |-> BasePort]}
    /\ usedPorts = {BasePort}
    /\ nextPort = BasePort + 1
    /\ debugSession = InitialSession
    /\ task = [t \in Tasks |-> IdleTask]
    /\ request = NoRequest
    /\ response = NoResponse
    /\ os = [p \in Pids |-> IF p = 1
                             THEN [NoProc EXCEPT !.life = "alive", !.port = BasePort,
                                                 !.listening = TRUE]
                             ELSE NoProc]
    /\ conn = [c \in Conns |-> NoConn]
    /\ halted = FALSE

\* The attach handshake and the pause state of the session of one launched
\* child, with the child's kill and exit and the shutdown.
NextAttach ==
    \/ AttachSteps
    \/ EventSteps
    \/ ControlSteps
    \/ ExitSteps
    \/ Shutdown

SpecAttach == InitLaunched /\ [][NextAttach]_vars

\* The state once attach_debugger has returned for that child and the paused
\* event of its first line has been handled.
InitAttached ==
    /\ managedProcesses = {[pid |-> 1, port |-> BasePort]}
    /\ usedPorts = {BasePort}
    /\ nextPort = BasePort + 1
    /\ debugSession = OnPaused(AttachedSession(BasePort, 1), MainStack)
    /\ task = [t \in Tasks |-> IdleTask]
    /\ request = NoRequest
    /\ response = NoResponse
    /\ os = [p \in Pids |-> IF p = 1
                             THEN [NoProc EXCEPT !.life = "alive", !.port = BasePort,
                                                 !.listening = TRUE, !.dbg = "paused"]
                             ELSE NoProc]
    /\ conn = [c \in Conns |-> IF c = 1
                               THEN [NoConn EXCEPT !.state = "open", !.pid = 1,
                                                   !.subscribed = TRUE,
                                                   !.debuggerEnabled = TRUE,
                                                   !.runtimeEnabled = TRUE]
                               ELSE NoConn]
    /\ halted = FALSE

\* setBreakpoint calls without a condition, and evaluate calls.
InspectStepsUnconditional ==
    \/ \E t \in Tasks, file \in Files, line \in Lines, ok \in BOOLEAN, id \in BreakpointIds :
          setBreakpointCall(t, file, line, "", ok, id)
    \/ \E t \in Tasks : setBreakpointDone(t)
    \/ \E t \in Tasks, expression \in Expressions, outcome \in EvaluateOutcomes :
          evaluateExpressionCall(t, expression, outcome)
    \/ \E t \in Tasks : evaluateExpressionDone(t)

\* The debug operations, on a session that is detached (no attach yet) or
\* attached, with the events and the child's kill and exit, the exit also
\* racing with the answers the child had sent.
NextDebug ==
    \/ EventSteps
    \/ ControlSteps
    \/ InspectStepsUnconditional
    \/ ExitSteps
    \/ UnreadSteps

SpecDebug == (InitLaunched \/ InitAttached) /\ [][NextDebug]_vars

\* Breakpoints set on an attached session, the debuggee resumed and stopped
\* at them, and the session read.
NextLines ==
    \/ \E t \in Tasks, file \in Files, line \in Lines, ok \in BOOLEAN, id \in BreakpointIds :
          setBreakpointCall(t, file, line, "", ok, id)
    \/ \E t \in Tasks : setBreakpointDone(t)
    \/ \E t \in Tasks, action \in StepActions : stepDebugCall(t, action)
    \/ \E t \in Tasks : stepDebugDone(t)
    \/ \E c \in Conns : DeliverEvent(c)
    \/ ViewSteps

SpecLines == InitAttached /\ [][NextLines]_vars

\* Launches that do not overlap: each is received when no other is in
\* flight, with the kills, the exits and the listing.
NextSequential ==
    \/ \E exists \in BOOLEAN : StartCall(1, exists)
    \/ \E spawnOk \in BOOLEAN : ProbeDone(1, spawnOk)
    \/ \E pid \in Pids, signalOk \in BOOLEAN : killProcess(pid, signalOk)
    \/ listProcesses
    \/ \E pid \in Pids : ChildExitEvent(pid)
    \/ \E pid \in Pids : ChildBind(pid)
    \/ \E pid \in Pids : ChildDies(pid)

SpecSequential == Init /\ [][NextSequential]_vars

\* The event loop resumes a launch whose probe has resolved or thrown.
FairProbe == WF_vars(\E spawnOk \in BOOLEAN : ProbeDone(1, spawnOk))

SpecScan == Init /\ [][NextSequential]_vars /\ FairProbe

\* The state once two launches have returned (the second past the foreign
\* port), both children have bound their inspectors, attach_debugger has
\* returned for the first child and the paused event of its first line has
\* been handled.
InitTwoLaunched ==
    /\ managedProcesses = {[pid |-> 1, port |-> BasePort], [pid |-> 2, port |-> BasePort + 2]}
    /\ usedPorts = {BasePort, BasePort + 2}
    /\ nextPort = BasePort + 3
    /\ debugSession = OnPaused(AttachedSession(BasePort, 1), MainStack)
    /\ task = [t \in Tasks |-> IdleTask]
    /\ request = NoRequest
    /\ response = NoResponse
    /\ os = [p \in Pids |->
               IF p = 1 THEN [NoProc EXCEPT !.life = "alive", !.port = BasePort,
                                            !.listening = TRUE, !.dbg = "paused"]
               ELSE IF p = 2 THEN [NoProc EXCEPT !.life = "alive", !.port = BasePort + 2,
                                                 !.listening = TRUE]
               ELSE NoProc]
    /\ conn = [c \in Conns |-> IF c = 1
                               THEN [NoConn EXCEPT !.state = "open", !.pid = 1,
                                                   !.subscribed = TRUE,
                                                   !.debuggerEnabled = TRUE,
                                                   !.runtimeEnabled = TRUE]
                               ELSE NoConn]
    /\ halted = FALSE

\* The shutdown of a server with two children and an attached session, at
\* any point of their stepping, kills and exits.
NextShutdown ==
    \/ EventSteps
    \/ ControlSteps
    \/ ExitSteps
    \/ Shutdown

SpecShutdown == InitTwoLaunched /\ [][NextShutdown]_vars

\* Attaches that overlap each other and setBreakpoint calls, on one launched
\* child that stays alive.
NextReattach ==
    \/ AttachSteps
    \/ \E c \in Conns : DeliverEvent(c)
    \/ \E t \in Tasks, file \in Files, line \in Lines, cond \in Conditions,
          ok \in BOOLEAN, id \in BreakpointIds : setBreakpointCall(t, file, line, cond, ok, id)
    \/ \E t \in Tasks : setBreakpointDone(t)

SpecReattach == InitLaunched /\ [][NextReattach]_vars

\* The stepping of an attached session, with the child's kill and exit.
NextLive ==
    \/ EventSteps
    \/ ControlSteps
    \/ ExitSteps

\* The event loop handles what has arrived: an event at the head of a
\* connection's queue is delivered to its handler, and an answer at the head
\* resumes the call that awaits it.
FairDelivery ==
    /\ WF_vars(\E c \in Conns : DeliverEvent(c))
    /\ WF_vars(\E t \in Tasks : stepDebugDone(t))
    /\ WF_vars(\E t \in Tasks : pauseExecutionDone(t))

SpecLive == InitAttached /\ [][NextLive]_vars /\ FairDelivery

\* ================================================================ claims
\* C2: processes registered by concurrent launches hold pairwise distinct
\* ports.
C2_DistinctPorts ==
    \A m1 \in managedProcesses : \A m2 \in managedProcesses :
        m1.pid # m2.pid => m1.port # m2.port

\* C3: once a process has both been killed through the registry and had its
\* exit event handled, its entry is gone and its port is claimed no more
\* (unless another registered process holds the same port).
C3_KillAndExitReleasePort ==
    \A pid \in Pids :
        (os[pid].signalled /\ os[pid].life = "reaped" /\ ~halted)
        => /\ pid \notin RegisteredPids
           /\ (\A m \in managedProcesses : m.port # os[pid].port)
                  => os[pid].port \notin usedPorts

\* C4: the exit event of a process that was not killed removes exactly its
\* entry from the registry and exactly its port from the claimed ports.
C4_NaturalExitRemovesOwn ==
    [][\A pid \in Pids :
          (os[pid].life = "dead" /\ os'[pid].life = "reaped" /\ ~os[pid].signalled)
          => /\ Entry(pid) # {}
             /\ managedProcesses' = {m \in managedProcesses : m.pid # pid}
             /\ usedPorts' = usedPorts \ {os[pid].port}]_vars

\* A process has exited on its own while another, on another port, is still
\* registered and claimed.
C4_Witness ==
    \E pid \in Pids :
        /\ os[pid].life = "reaped" /\ ~os[pid].signalled
        /\ pid \notin RegisteredPids /\ os[pid].port \notin usedPorts
        /\ \E m \in managedProcesses : m.port # os[pid].port /\ m.port \in usedPorts

\* C5: a kill on a pid that is not registered reports ProcessNotFound, signals
\* nothing and changes neither the registry, the claimed ports nor the session.
C5_KillUnknownPid ==
    [][(request'.op = "kill" /\ request'.num \notin RegisteredPids)
          => /\ response'.op = "kill" /\ response'.res = "ProcessNotFound"
             /\ UNCHANGED <<managedProcesses, usedPorts, nextPort, debugSession, os, conn>>]_vars

\* A second kill on a pid that was killed before has been answered.
C5_Witness ==
    /\ request.op = "kill" /\ response.res = "ProcessNotFound"
    /\ os[request.num].signalled

\* C10: a launch whose script path does not exist reports ScriptNotFound,
\* spawns nothing, probes no port and changes neither the registry, the
\* claimed ports nor the cursor.
C10_ScriptNotFound ==
    [][(request'.op = "start" /\ ~request'.exists)
          => /\ response'.op = "start" /\ response'.res = "ScriptNotFound"
             /\ UNCHANGED <<managedProcesses, usedPorts, nextPort, task, os, conn,
                            debugSession>>]_vars

\* Such a launch has been answered while a process is registered.
C10_Witness ==
    /\ request.op = "start" /\ ~request.exists
    /\ response.res = "ScriptNotFound"
    /\ managedProcesses # {}

SessionPaused == debugSession.isPaused = Some(TRUE)

SessionHasFrames == IsDef(debugSession.callStack) /\ Len(Val(debugSession.callStack)) >= 1

\* C1: when attach returns success for a port a launched process listens on,
\* the session is paused and its call stack has at least one frame.
C1_AttachReturnsPaused ==
    (request.op = "none" /\ response.op = "attach" /\ response.res = "ok"
        /\ Listener(response.num) # {})
    => SessionPaused /\ SessionHasFrames

\* C6: when the exit event of a process is handled while the session is
\* attached to that process's port, the session is detached afterwards.
C6_ExitDetachesSession ==
    [][\A pid \in Pids :
          (os[pid].life = "dead" /\ os'[pid].life = "reaped"
              /\ debugSession.connected /\ debugSession.port = Some(os[pid].port))
          => ~debugSession'.connected]_vars

OpenConns == {c \in Conns : conn[c].state = "open"}

\* C7: at most one connection the server opened is open, and when no attach
\* is in flight every open connection is the one the session holds.
C7_OneOpenConnection ==
    /\ Cardinality(OpenConns) <= 1
    /\ (\A t \in Tasks : task[t].op # "attach") => OpenConns \subseteq debugSession.client

\* C8: the session's paused flag is true exactly when its call stack is
\* non-empty.
C8_PausedIffFrames == SessionPaused <=> SessionHasFrames

\* The session is attached and paused with a stack of two frames.
C8_Witness ==
    /\ debugSession.connected
    /\ SessionPaused
    /\ debugSession.callStack = Some(TestStack)

DebugOps == {"setBreakpoint", "step", "pause", "evaluate"}

\* C9: while the session is detached, set breakpoint, step, pause and
\* evaluate each report NoActiveSession, send no protocol request and leave
\* the session and its breakpoint table as they were.
C9_DetachedRejects ==
    [][(request'.op \in DebugOps /\ ~debugSession.connected)
          => /\ response'.op = request'.op /\ response'.res = "NoActiveSession"
             /\ UNCHANGED <<debugSession, conn, os, task, managedProcesses, usedPorts,
                            nextPort>>]_vars

\* A set-breakpoint call has been rejected on a session the exit of its
\* process had detached.
C9_Witness ==
    /\ request.op = "setBreakpoint" /\ response.res = "NoActiveSession"
    /\ debugSession = ExitResetSession

\* C11: whenever the set-breakpoint request of a setBreakpoint call is
\* answered with a breakpoint id, the call reports success and the session's
\* breakpoint table maps the call's key to that id, whatever was handled
\* while the request was outstanding.
C11_BreakpointRecorded ==
    [][\A t \in Tasks :
          (~halted' /\ task[t].op = "setBreakpoint" /\ task[t].pc = "request"
              /\ task'[t].pc = "idle" /\ Reply(t).ok)
          => /\ response'.op = "setBreakpoint" /\ response'.res = "ok"
             /\ IsDef(debugSession'.breakpoints)
             /\ <<breakpointKey(task[t].str, task[t].num), Reply(t).data>>
                    \in Val(debugSession'.breakpoints)]_vars

\* C12: a successful setBreakpoint leaves exactly one table entry for its
\* (url, line), mapping it to the id this call was answered with, also when
\* the key was in the table before; the entries of other keys are unchanged.
C12_OneEntryPerKey ==
    [][(response'.op = "setBreakpoint" /\ response'.res = "ok")
          => \E t \in Tasks :
                /\ task[t].op = "setBreakpoint" /\ task'[t].pc = "idle"
                /\ IsDef(debugSession.breakpoints) /\ IsDef(debugSession'.breakpoints)
                /\ LET key == breakpointKey(task[t].str, task[t].num)
                       old == Val(debugSession.breakpoints)
                       new == Val(debugSession'.breakpoints) IN
                   /\ {e \in new : e[1] = key} = {<<key, response'.val>>}
                   /\ {e \in new : e[1] # key} = {e \in old : e[1] # key}]_vars

\* A setBreakpoint on line 5 has just succeeded with id 2:0 in an attached
\* session whose table holds that one entry for line 5 and an entry for line 6.
C12_Witness ==
    /\ debugSession.connected
    /\ response.op = "setBreakpoint" /\ response.res = "ok"
    /\ response.num = 5 /\ response.val = "2:0"
    /\ debugSession.breakpoints =
          Some({<<breakpointKey("file:///tmp/a.js", 5), "2:0">>,
                <<breakpointKey("file:///tmp/a.js", 6), "1:0">>})

\* C13: an evaluate call on an attached session issues exactly one request,
\* chosen from the session as it is at the call: paused with a non-empty call
\* stack, an evaluate-on-call-frame on the innermost frame; otherwise a
\* runtime evaluate carrying the session's current execution-context id.
C13_EvaluateTarget ==
    [][(request'.op = "evaluate" /\ debugSession.connected /\ IsDef(debugSession.client))
          => \E t \in Tasks :
                /\ task[t].pc = "idle" /\ task'[t].op = "evaluate"
                /\ \A u \in Tasks \ {t} : task'[u] = task[u]
                /\ task'[t].target =
                      IF debugSession.isPaused = Some(TRUE) /\ IsDef(debugSession.callStack)
                            /\ Len(Val(debugSession.callStack)) > 0
                      THEN [method |-> "Debugger.evaluateOnCallFrame",
                            frame |-> Some(Val(debugSession.callStack)[1]),
                            contextId |-> Undefined]
                      ELSE [method |-> "Runtime.evaluate", frame |-> Undefined,
                            contextId |-> debugSession.currentExecutionContext]
                /\ LET c == task'[t].conn
                       old == conn[c].queue
                       new == conn'[c].queue IN
                   /\ c = Val(debugSession.client)
                   /\ \A d \in Conns \ {c} : conn'[d] = conn[d]
                   /\ \/ new = old
                      \/ /\ Len(new) = Len(old) + 1
                         /\ SubSeq(new, 1, Len(old)) = old
                         /\ new[Len(new)].type = "resp" /\ new[Len(new)].task = t]_vars

\* An evaluate call has just been received while the session was paused in
\* test, called from main: its request is on the frame of test.
C13_Witness ==
    /\ request.op = "evaluate"
    /\ debugSession.callStack = Some(TestStack)
    /\ \E t \in Tasks :
          /\ task[t].op = "evaluate"
          /\ task[t].target.method = "Debugger.evaluateOnCallFrame"
          /\ task[t].target.frame = Some(Frame("test", 2))

\* C14: when the answer to an evaluate request carries exception details,
\* evaluate returns a reported exception, which is not the outcome of a
\* rejected request, and the session is left as it was.
C14_ExceptionReported ==
    [][\A t \in Tasks :
          (~halted' /\ task[t].op = "evaluate" /\ task[t].pc = "request"
              /\ task'[t].pc = "idle" /\ Reply(t).ok /\ Reply(t).data = "exception")
          => /\ response'.op = "evaluate" /\ response'.res = "Exception"
             /\ response'.res # EvaluateResult(Msg("resp", t, FALSE, Rejected)).res
             /\ debugSession' = debugSession]_vars

\* An evaluate has just returned a reported exception on an attached, paused
\* session.
C14_Witness ==
    /\ response.op = "evaluate" /\ response.res = "Exception"
    /\ debugSession.connected /\ SessionPaused

\* C15: a step or pause call, accepted or rejected by the protocol, leaves
\* the session's paused flag and call stack as they are; apart from attach,
\* the exit observer and the shutdown, only the handling of a paused or
\* resumed event changes them.
C15_OnlyEventsChangePause ==
    [][/\ (request'.op \in {"step", "pause"} \/ response'.op \in {"step", "pause"})
            => /\ debugSession'.isPaused = debugSession.isPaused
               /\ debugSession'.callStack = debugSession.callStack
       /\ (debugSession'.isPaused # debugSession.isPaused
               \/ debugSession'.callStack # debugSession.callStack)
            => \/ \E c \in Conns :
                     /\ conn[c].state = "open" /\ conn[c].queue # <<>>
                     /\ Head(conn[c].queue).type \in {"paused", "resumed"}
                     /\ conn'[c].queue = Tail(conn[c].queue)
               \/ \E t \in Tasks :
                     /\ task[t].op = "attach" /\ task[t].pc = "enableRuntime"
                     /\ task'[t].pc = "pause"
               \/ \E pid \in Pids : os[pid].life = "dead" /\ os'[pid].life = "reaped"
               \/ halted']_vars

\* A step has just been accepted and the session still shows the pause the
\* debuggee has left: the resumed event is not handled yet.
C15_Witness ==
    /\ response.op = "step" /\ response.res = "ok"
    /\ SessionPaused /\ SessionHasFrames
    /\ \E c \in Conns : /\ conn[c].state = "open" /\ conn[c].queue # <<>>
                        /\ Head(conn[c].queue).type = "resumed"

\* C16: when attach returns success, the session's current execution-context
\* id is the id of the context-creation event that was handled during the
\* attach (the event precedes the answer to Runtime.enable).
C16_NoEventLost ==
    (response.op = "attach" /\ response.res = "ok")
    => \E id \in ContextIds : debugSession.currentExecutionContext = Some(id)

\* The error a debug operation reports when its request is rejected.
ErrorOf(op) ==
    CASE op = "setBreakpoint" -> "BreakpointError"
      [] op = "step" -> "StepError"
      [] op = "pause" -> "PauseError"
      [] op = "evaluate" -> "EvaluateError"

\* C17: when the request of set breakpoint, step, pause or evaluate is
\* rejected or errors, the operation returns its error response with the
\* underlying message, and every field of the session is as before.
C17_ProtocolErrorKeepsSession ==
    [][\A t \in Tasks :
          (~halted' /\ task[t].op \in DebugOps /\ task[t].pc = "request"
              /\ task'[t].pc = "idle" /\ ~Reply(t).ok)
          => /\ response'.op = task[t].op /\ response'.res = ErrorOf(task[t].op)
             /\ response'.val = Reply(t).data
             /\ debugSession' = debugSession]_vars

\* A pause has just been rejected by the debuggee on an attached session that
\* holds a breakpoint.
C17_Witness ==
    /\ response.op = "pause" /\ response.res = "PauseError" /\ response.val = Rejected
    /\ debugSession.connected
    /\ IsDef(debugSession.breakpoints) /\ Val(debugSession.breakpoints) # {}

\* C18: a shutdown signals every registered process whose kill does not
\* throw, waits for no exit, and leaves the registry and the claimed ports
\* empty and the session in its initial state.
C18_CleanupResets ==
    [][(~halted /\ response'.op = "cleanup")
          => /\ halted'
             /\ \A p \in RegisteredPids : p \notin response'.val => os'[p].signalled
             /\ \A p \in Pids : os'[p].life = os[p].life
             /\ managedProcesses' = {} /\ usedPorts' = {}
             /\ ~debugSession'.connected
             /\ debugSession'.port = Undefined /\ debugSession'.client = Undefined
             /\ debugSession'.isPaused = Some(FALSE)
             /\ debugSession'.breakpoints = Some({})]_vars

\* The server has shut down while both children were alive; the kill of the
\* first threw, the second was signalled.
C18_Witness ==
    /\ halted /\ response.op = "cleanup" /\ response.val = {1}
    /\ os[1].life = "alive" /\ ~os[1].signalled
    /\ os[2].life = "alive" /\ os[2].signalled
    /\ conn[1].state = "closed"

\* C19: when launches do not overlap, no two live processes were given the
\* same port.
C19_SequentialPortsDistinct ==
    \A p \in Pids : \A q \in Pids :
        (p # q /\ os[p].life = "alive" /\ os[q].life = "alive") => os[p].port # os[q].port

\* A second launch has just returned while the child of the first is alive.
C19_Witness ==
    /\ response.op = "start" /\ response.res = "ok" /\ response.num = 2
    /\ os[1].life = "alive" /\ os[2].life = "alive"

\* C20: every tool call that ends returns a response, and no failure of a
\* spawn, a signal delivery or a protocol request ends the server process:
\* only the shutdown does.
C20_NoFailureEndsServer ==
    [][/\ \A t \in Tasks :
             (~halted' /\ task[t].pc # "idle" /\ task'[t].pc = "idle")
             => response'.op = task[t].op /\ response'.res # ""
       /\ (request'.op # "none" /\ \A t \in Tasks : task'[t] = task[t])
             => response'.op = request'.op /\ response'.res # ""
       /\ (~halted /\ halted') => response'.op = "cleanup"]_vars

\* A step(continue) has just been received on an attached, paused session and
\* the debuggee has accepted it.
ContinueAccepted ==
    /\ request.op = "step" /\ request.str = "continue"
    /\ debugSession.connected /\ SessionPaused
    /\ \E t \in Tasks :
          /\ task[t].op = "step" /\ task[t].pc = "request"
          /\ conn[task[t].conn].state = "open"
          /\ \E i \in 1..Len(conn[task[t].conn].queue) :
                LET m == conn[task[t].conn].queue[i] IN
                m.type = "resp" /\ m.task = t /\ m.ok

\* The connection the session holds is gone: its events are not delivered.
ClientGone ==
    \/ ~IsDef(debugSession.client)
    \/ conn[Val(debugSession.client)].state # "open"

\* C21: with fair delivery, once the debuggee has accepted a step(continue)
\* on an attached, paused session, the paused flag eventually is not true
\* (unless the connection goes away with the events on it); and the flag
\* becomes true only by the handling of a paused event.
C21_ContinueClearsPaused ==
    /\ ContinueAccepted ~> (~SessionPaused \/ ClientGone)
    /\ [][(~SessionPaused /\ SessionPaused')
             => \E c \in Conns :
                   /\ conn[c].state = "open" /\ conn[c].queue # <<>>
                   /\ Head(conn[c].queue).type = "paused"
                   /\ conn'[c].queue = Tail(conn[c].queue)]_vars

\* The resumed event of a continue has been handled: the session is attached
\* and running, as the debuggee is.
C21_Witness ==
    /\ debugSession.connected
    /\ debugSession.isPaused = Some(FALSE) /\ debugSession.callStack = Some(<<>>)
    /\ os[1].life = "alive" /\ os[1].dbg = "running"
    /\ conn[1].state = "open" /\ conn[1].queue = <<>>

\* C22: an attach received while the session holds a connection handle first
\* closes that handle, opens nothing before the close has returned, and
\* connections are opened only by an attach that is past its close.
C22_CloseBeforeOpen ==
    [][/\ \A t \in Tasks :
             /\ (request'.op = "attach" /\ task[t].pc = "idle" /\ task'[t].op = "attach"
                    /\ IsDef(debugSession.client))
                  => /\ task'[t].pc = "close"
                     /\ task'[t].conn = Val(debugSession.client)
                     /\ conn' = conn
             /\ (~halted' /\ task[t].op = "attach" /\ task[t].pc = "close"
                    /\ task'[t].pc # "close")
                  => \/ task'[t].pc = "idle"
                     \/ /\ task'[t].pc = "connect"
                        /\ conn'[task[t].conn].state = "closed"
                        /\ \A c \in Conns : conn'[c].state = "open" => conn[c].state = "open"
       /\ \A c \in Conns :
             (conn[c].state = "none" /\ conn'[c].state = "open")
             => \E t \in Tasks : /\ task[t].op = "attach" /\ task[t].pc = "connect"
                                 /\ task'[t].conn = c]_vars

\* A second attach has opened its connection after closing the one the
\* session still names, the debuggee being alive throughout.
C22_Witness ==
    /\ debugSession.client = Some(1)
    /\ conn[1].state = "closed" /\ os[1].life = "alive"
    /\ \E t \in Tasks :
          /\ task[t].op = "attach" /\ task[t].pc = "enableDebugger"
          /\ task[t].conn = 2 /\ conn[2].state = "open"

\* C23: an attach that leaves the close of the previous handle, whether the
\* close succeeded or failed, goes on to open the new connection and reports
\* nothing.
C23_CloseFailureSwallowed ==
    [][\A t \in Tasks :
          (~halted' /\ task[t].op = "attach" /\ task[t].pc = "close" /\ task'[t] # task[t])
          => task'[t].pc = "connect" /\ response'.op = "none"]_vars

\* The proceed-if-waiting request of attach t has been issued on its
\* connection in this step (a connection that is gone takes no request).
ReleaseIssued(t) ==
    LET c == task[t].conn IN
    (conn[c].state = "open" /\ os[conn[c].pid].life = "alive")
    => /\ conn'[c].queue # <<>>
       /\ conn'[c].queue[Len(conn'[c].queue)].type = "resp"
       /\ conn'[c].queue[Len(conn'[c].queue)].task = t

\* C24: attach adopts a session connected to the requested port, and from
\* there neither a failed pause request nor a failed proceed-if-waiting
\* request ends it or touches the session: a failed pause is followed at
\* once by the proceed-if-waiting request, and attach returns success.
C24_BestEffortSteps ==
    [][\A t \in Tasks :
          (~halted' /\ task[t].op = "attach" /\ task'[t] # task[t])
          => /\ (task[t].pc = "enableRuntime" /\ task'[t].pc = "pause")
                  => /\ debugSession'.connected
                     /\ debugSession'.port = Some(task[t].num)
                     /\ debugSession'.client = Some(task[t].conn)
             /\ task[t].pc = "pause"
                  => /\ response'.op = "none" /\ debugSession' = debugSession
                     /\ IF Reply(t).ok THEN task'[t].pc = "delay1"
                        ELSE task'[t].pc = "release" /\ ReleaseIssued(t)
             /\ task[t].pc = "delay1"
                  => /\ response'.op = "none" /\ debugSession' = debugSession
                     /\ task'[t].pc = "release" /\ ReleaseIssued(t)
             /\ task[t].pc = "release"
                  => /\ response'.op = "none" /\ debugSession' = debugSession
                     /\ task'[t].pc = "delay2"
             /\ task[t].pc = "delay2"
                  => /\ response' = Response("attach", "ok", task[t].num, "")
                     /\ debugSession' = debugSession]_vars

\* Attach has returned success: the session is connected to the requested
\* port on an open connection, and the debuggee, released, is running.
C24_Witness ==
    /\ response.op = "attach" /\ response.res = "ok"
    /\ debugSession.connected /\ debugSession.port = Some(response.num)
    /\ IsDef(debugSession.client) /\ conn[Val(debugSession.client)].state = "open"
    /\ os[1].life = "alive" /\ os[1].dbg = "running"

\* C25: on every connection the three subscriptions are installed before
\* either domain is enabled, the debugger domain is enabled before the
\* runtime domain, and the pause request precedes the proceed-if-waiting
\* request.
C25_SubscribeBeforeEnable ==
    [][/\ \A c \in Conns :
             /\ conn'[c].debuggerEnabled => conn'[c].subscribed
             /\ conn'[c].runtimeEnabled => conn'[c].subscribed /\ conn'[c].debuggerEnabled
       /\ \A t \in Tasks :
             (task'[t].op = "attach" /\ task'[t].pc # task[t].pc)
             => /\ task'[t].pc = "enableDebugger" => task[t].pc = "connect"
                /\ task'[t].pc = "enableRuntime" => task[t].pc = "enableDebugger"
                /\ task'[t].pc = "pause" => task[t].pc = "enableRuntime"
                /\ task'[t].pc = "delay1" => task[t].pc = "pause"
                /\ task'[t].pc = "release" => task[t].pc \in {"pause", "delay1"}]_vars

\* An attach has issued its proceed-if-waiting request on a connection with
\* the subscriptions installed and both domains enabled.
C25_Witness ==
    \E t \in Tasks :
        /\ task[t].op = "attach" /\ task[t].pc = "release"
        /\ conn[task[t].conn].state = "open"
        /\ conn[task[t].conn].subscribed
        /\ conn[task[t].conn].debuggerEnabled /\ conn[task[t].conn].runtimeEnabled

\* C26: the handling of a paused event sets the call stack to the frames of
\* the event and paused to true; the handling of a resumed event sets the
\* call stack to empty and paused to false; neither changes the connection
\* flag, the port, the client, the execution-context id or the breakpoint
\* table.
C26_HandlersFrame ==
    [][\A c \in Conns :
          (/\ conn[c].state = "open" /\ conn[c].queue # <<>>
           /\ Head(conn[c].queue).type \in {"paused", "resumed"}
           /\ conn' = [conn EXCEPT ![c].queue = Tail(@)]
           /\ task' = task)
          => LET ev == Head(conn[c].queue) IN
             /\ debugSession'.callStack =
                   IF ev.type = "paused" THEN Some(ev.data) ELSE Some(<<>>)
             /\ debugSession'.isPaused = Some(ev.type = "paused")
             /\ debugSession'.connected = debugSession.connected
             /\ debugSession'.port = debugSession.port
             /\ debugSession'.client = debugSession.client
             /\ debugSession'.currentExecutionContext = debugSession.currentExecutionContext
             /\ debugSession'.breakpoints = debugSession.breakpoints]_vars

\* A paused event with two frames has just been handled on an attached
\* session that holds a breakpoint.
C26_Witness ==
    /\ request.op = "none" /\ response.op = "none"
    /\ debugSession.connected
    /\ debugSession.isPaused = Some(TRUE)
    /\ debugSession.callStack = Some(TestStack)
    /\ IsDef(debugSession.breakpoints) /\ Val(debugSession.breakpoints) # {}
    /\ conn[1].state = "open" /\ conn[1].queue = <<>>

\* C27: when the connection an attached session holds is closed from the
\* remote side, the session becomes detached.
C27_ConnectionLossDetaches ==
    [][\A c \in Conns :
          (/\ ~halted'
           /\ conn[c].state = "open" /\ conn'[c].state = "closed"
           /\ os'[conn[c].pid].life # "alive"
           /\ debugSession.connected /\ debugSession.client = Some(c))
          => ~debugSession'.connected]_vars

\* C28: while the session is detached its port is unset, its paused flag is
\* not true, its call stack is empty and its execution-context id is
\* cleared.
C28_DetachedIsClear ==
    ~debugSession.connected
    => /\ debugSession.port = Undefined
       /\ debugSession.isPaused # Some(TRUE)
       /\ debugSession.callStack \in {Undefined, Some(<<>>)}
       /\ debugSession.currentExecutionContext = Undefined

\* C29: a setBreakpoint call writes its result only into the table of the
\* session that holds the connection the call's request was issued on, and
\* a session that adopts a connection starts from an empty table.
C29_EntriesFromHeldConnection ==
    [][/\ \A t \in Tasks :
             (/\ task[t].op = "setBreakpoint" /\ task[t].pc = "request"
              /\ task'[t].pc = "idle"
              /\ debugSession'.breakpoints # debugSession.breakpoints)
             => debugSession.client = Some(task[t].conn)
       /\ (debugSession'.connected /\ debugSession'.client # debugSession.client)
             => debugSession'.breakpoints = Some({})]_vars

\* The table entries for the file and line of task t's call.
EntriesAt(table, t) ==
    {e \in table : e[1][1] = task[t].str /\ e[1][2] = task[t].num}

\* Task t's setBreakpoint call is outstanding right after the success of a
\* call for the same file and line with another condition, whose entry is in
\* the table of the session both calls were issued on.
SecondCondition(t) ==
    /\ response.op = "setBreakpoint" /\ response.res = "ok"
    /\ task[t].op = "setBreakpoint" /\ task[t].pc = "request"
    /\ task[t].num = response.num /\ task[t].cond # response.cond
    /\ debugSession.client = Some(task[t].conn)
    /\ IsDef(debugSession.breakpoints)
    /\ \E e \in EntriesAt(Val(debugSession.breakpoints), t) : e[2] = response.val

\* C30 as stated: two successful setBreakpoint calls for the same file and
\* line with different conditions are recorded under two distinct keys, the
\* entry of the first still there after the second.
C30_KeyedByCondition ==
    [][\A t \in Tasks :
          (/\ SecondCondition(t)
           /\ task'[t].pc = "idle"
           /\ response'.op = "setBreakpoint" /\ response'.res = "ok")
          => \E e1, e2 \in EntriesAt(Val(debugSession'.breakpoints), t) :
                e1[1] # e2[1] /\ e1[2] = response.val /\ e2[2] = response'.val]_vars

\* C30 as amended: the table is keyed by file and line alone, so the second
\* of two successful calls for the same file and line with different
\* conditions leaves one entry for them, with the id it was answered with.
C30_KeyedByLocation ==
    [][\A t \in Tasks :
          (/\ SecondCondition(t)
           /\ task'[t].pc = "idle"
           /\ response'.op = "setBreakpoint" /\ response'.res = "ok")
          => EntriesAt(Val(debugSession'.breakpoints), t)
                = {<<breakpointKey(task[t].str, task[t].num), response'.val>>}]_vars

\* A call for line 5 without condition has just succeeded with id 1:0, and
\* the answer 2:0 to a call for line 5 with a condition is the next thing on
\* the session's connection.
C30_Witness ==
    \E t \in Tasks :
       /\ SecondCondition(t)
       /\ response.num = 5 /\ response.cond = "" /\ response.val = "1:0"
       /\ task[t].cond = "x > 1"
       /\ conn[task[t].conn].state = "open" /\ conn[task[t].conn].queue # <<>>
       /\ Head(conn[task[t].conn].queue) = Msg("resp", t, TRUE, "2:0")

\* C31: when attach returns success for port p the session is connected and
\* bound to port p, whatever was handled while the handshake was suspended.
C31_ReturnedSessionBound ==
    (response.op = "attach" /\ response.res = "ok")
    => /\ debugSession.connected
       /\ debugSession.port = Some(response.num)

\* C32: in every state in which the session reports connected, the
\* connection it holds was opened by the server and has not been closed by
\* it (the child stays alive here: only the server closes connections).
C32_ConnectedHoldsOpenHandle ==
    debugSession.connected
    => /\ IsDef(debugSession.client)
       /\ conn[Val(debugSession.client)].state = "open"

\* Task t is in the scan of findAvailablePort, at the probe of its candidate.
Scanning(t) == task[t].op = "start" /\ task[t].pc = "probe"

\* C33: allocate goes from the cursor to the first port that is not claimed,
\* probes it, goes on from an occupied candidate to the next port that is
\* not claimed, and returns the first candidate the probe reports available,
\* setting the cursor to that port plus one: every port it passed was
\* claimed or occupied when it was tested.
C33_AllocateSmallestFree ==
    [][\A t \in Tasks :
          /\ (task[t].pc = "idle" /\ Scanning(t)')
                => LET p == task'[t].port IN
                   /\ p >= nextPort /\ p \notin usedPorts
                   /\ \A q \in nextPort..(p - 1) : q \in usedPorts
          /\ (Scanning(t) /\ Scanning(t)' /\ task'[t] # task[t])
                => LET p == task[t].port
                       n == task'[t].port IN
                   /\ ~isPortAvailable(p)
                   /\ n > p /\ n \notin usedPorts
                   /\ \A q \in (p + 1)..(n - 1) : q \in usedPorts
                   /\ nextPort' = nextPort
          /\ (Scanning(t) /\ task'[t].pc = "idle" /\ response'.res \in {"ok", "SpawnError"})
                => /\ isPortAvailable(task[t].port)
                   /\ nextPort' = task[t].port + 1
                   /\ response'.res = "ok" => response'.val = task[t].port]_vars

\* A launch has just been given the third port: the first is claimed by the
\* first launch, and something else listens on the second.
C33_Witness ==
    /\ response.op = "start" /\ response.res = "ok" /\ response.val = BasePort + 2
    /\ BasePort \in usedPorts
    /\ nextPort = BasePort + 3

\* C34: the allocation cursor never decreases.
C34_CursorNeverDecreases == [][nextPort' >= nextPort]_vars

\* C35: a launch whose spawn gives no child returns an error and leaves the
\* registry and the claimed ports as they were.
C35_FailedSpawnLeavesRegistry ==
    [][\A t \in Tasks :
          (/\ Scanning(t) /\ task'[t].pc = "idle" /\ response'.op = "start"
           /\ ~PortOutOfRange(task[t].port)
           /\ os' = os)
          => /\ response'.res = "SpawnError"
             /\ managedProcesses' = managedProcesses
             /\ usedPorts' = usedPorts]_vars

\* The spawn of a second launch has just failed; the first launch's child
\* is registered on the first port, and the cursor is past the third.
C35_Witness ==
    /\ response.op = "start" /\ response.res = "SpawnError"
    /\ usedPorts = {BasePort}
    /\ RegisteredPids = {1}
    /\ nextPort = BasePort + 3

\* C36: what listProcesses returns holds no process on which a kill has
\* succeeded and no process whose exit has been observed.
C36_ListOmitsKilled ==
    response.op = "list"
    => \A pid \in response.val : ~os[pid].signalled /\ os[pid].life # "reaped"

\* listProcesses has just returned the second process alone, after a kill
\* of the first, which is still alive.
C36_Witness ==
    /\ response.op = "list" /\ response.val = {2}
    /\ os[1].signalled /\ os[1].life = "alive"

\* Some port at or above the candidate of task t's scan is not claimed and
\* is reported available.
SuitablePort(t) ==
    \E p \in Ports : p >= task[t].port /\ p \notin usedPorts /\ isPortAvailable(p)

\* C38 as stated, its second half: a scan for which no port is left never
\* returns.
C38_ExhaustedScanNeverReturns ==
    [][(Scanning(1) /\ ~SuitablePort(1)) => Scanning(1)']_vars

\* C38 as amended: a scan for which a port is left returns a port (the spawn
\* follows at once); a scan for which none is left returns no port, and ends
\* only when its candidate has passed the last port number, with the error
\* of the probe and the registry as it was.
C38_ScanEnds ==
    /\ (Scanning(1) /\ SuitablePort(1))
          ~> (response.op = "start" /\ response.res \in {"ok", "SpawnError"})
    /\ [][(Scanning(1) /\ ~SuitablePort(1) /\ ~Scanning(1)')
             => /\ PortOutOfRange(task[1].port)
                /\ response'.op = "start" /\ response'.res = "PortRangeError"
                /\ UNCHANGED registryVars]_vars

\* A third launch has just ended with the error of the probe: the cursor
\* was past the last port.
C38_Witness ==
    /\ response.op = "start" /\ response.res = "PortRangeError"
    /\ PortOutOfRange(nextPort)
    /\ usedPorts = {BasePort, BasePort + 2}

\* C37: a setBreakpoint call with line L has the debuggee hold a breakpoint
\* at the zero-based line L - 1 and records its id under the key with L; the
\* session view shows every call frame at its zero-based line plus one, so
\* a frame stopped at a breakpoint the debuggee holds for the session's
\* connection is shown at a line the table has a key for.
C37_LinesRoundTrip ==
    /\ [](response.op = "session"
            => /\ IsDef(response.val.callStack) = IsDef(debugSession.callStack)
               /\ IsDef(debugSession.callStack)
                    => LET stack == Val(debugSession.callStack)
                           shown == Val(response.val.callStack) IN
                       /\ DOMAIN shown = DOMAIN stack
                       /\ \A i \in DOMAIN stack :
                             /\ shown[i].lineNumber = stack[i].lineNumber + 1
                             /\ (/\ IsDef(debugSession.client)
                                 /\ <<stack[i].url, stack[i].lineNumber>>
                                        \in conn[Val(debugSession.client)].breaks)
                                  => \E e \in response.val.breakpoints :
                                        e[1] = breakpointKey(shown[i].url, shown[i].lineNumber))
    /\ [][\A t \in Tasks :
             /\ (task[t].pc = "idle" /\ task'[t].op = "setBreakpoint"
                    /\ task'[t].pc = "request")
                  => LET c == task'[t].conn
                         sent == conn'[c].queue # conn[c].queue
                         location == <<request'.str, request'.num - 1>> IN
                     /\ conn'[c].breaks \ conn[c].breaks \subseteq {location}
                     /\ (sent /\ conn'[c].queue[Len(conn'[c].queue)].ok)
                           => location \in conn'[c].breaks
             /\ (task[t].op = "setBreakpoint" /\ task'[t].pc = "idle"
                    /\ response'.op = "setBreakpoint" /\ response'.res = "ok")
                  => \E e \in Val(debugSession'.breakpoints) :
                        e[1] = breakpointKey(task[t].str, task[t].num)]_vars

\* The session has just been read while the debuggee is stopped at the
\* breakpoint set on line 5: the innermost frame is shown at line 5.
C37_Witness ==
    /\ response.op = "session"
    /\ response.val.isPaused = Some(TRUE)
    /\ IsDef(response.val.callStack)
    /\ Val(response.val.callStack)[1].lineNumber = 5
    /\ response.val.breakpoints = {<<breakpointKey("file:///tmp/a.js", 5), "1:0">>}
    /\ conn[1].breaks = {<<"file:///tmp/a.js", 4>>}

====
